---- MODULE Spec2Model ----
(***************************************************************************)
(* Model of Scripts/check_tuist_graph_architecture.py: the identifier      *)
(* classifier, the target index builder, the edge enumerator, the rule     *)
(* engine and the reporter of the architecture linter.                     *)
(*                                                                         *)
(* Representation of Python values:                                        *)
(*  - a str that is split on "." is a sequence of atoms, each atom either  *)
(*    the delimiter "." or a non-empty dot-free chunk; the string is the   *)
(*    concatenation of its atoms (Join);                                   *)
(*  - Optional[_ModuleTarget] is a record, None being [none |-> TRUE];     *)
(*  - a JSON value is a record tagged by its type in field t;              *)
(*  - a dict that is iterated is a sequence of <<key, value>> pairs with   *)
(*    distinct keys, in insertion order;                                   *)
(*  - list indices are 1-based, 0 standing for Python's None index.        *)
(***************************************************************************)
EXTENDS Integers, Sequences, FiniteSets, TLC

VARIABLES
    pc,             \* position in main, or in the function under test
    bundle_id,      \* argument of _parse_module_target (sequence of atoms)
    module_target,  \* its result
    payload,        \* the text of graph.json, as the JSON value it parses to
    graph,          \* main: graph
    target_index,   \* main: target_index
    edges,          \* main: edges
    violations,     \* main: violations
    out,            \* what reached sys.stdout
    err,            \* what reached sys.stderr
    status,         \* how the process ended
    lines,          \* _scan_file: the lines of the file read so far
    brace_depth,    \* _scan_file: brace_depth
    code_stack,     \* _scan_file: code_stack
    pending_context, \* _scan_file: pending_context
    pending_depth,  \* _scan_file: pending_depth
    findings,       \* _scan_file: findings
    checked         \* the numbers of the lines whose doc comment was looked for

\* the state of check_tuist_graph_architecture.py
pipeline == <<bundle_id, module_target, payload, graph, target_index, edges,
              violations, out, err, status>>

\* the state of check_swift_docs.py
scanner == <<lines, brace_depth, code_stack, pending_context, pending_depth,
             findings, checked>>

vars == <<pc, pipeline, scanner>>

----------------------------------------------------------------------------
(* Bounds *)

MaxIdLen == 7

MaxProjects == 2

MaxDeps == 2

MaxEdges == 2

MaxDurationMs == 1

\* the lines of a scanned file
MaxLines == 4

----------------------------------------------------------------------------
(* Vocabulary *)

_MODULE_KINDS == {"interface", "impl", "testing", "tests"}

_MODULE_LAYERS == {"core", "compositionRoot", "feature", "shared", "utility", "app"}

None == [none |-> TRUE]

_ModuleTarget(layer, module_name, kind, bid) ==
    [layer |-> layer, module_name |-> module_name, kind |-> kind, bundle_id |-> bid]

----------------------------------------------------------------------------
(* Strings *)

RECURSIVE Join(_)
Join(atoms) ==
    IF atoms = <<>> THEN "" ELSE Head(atoms) \o Join(Tail(atoms))

RECURSIVE SplitFrom(_, _, _)
SplitFrom(atoms, i, cur) ==
    IF i > Len(atoms) THEN <<cur>>
    ELSE IF atoms[i] = "." THEN <<cur>> \o SplitFrom(atoms, i + 1, "")
    ELSE SplitFrom(atoms, i + 1, cur \o atoms[i])

\* str.split("."): every segment between delimiters, empty ones included
Split(atoms) == SplitFrom(atoms, 1, "")

\* a variant that keeps the empty segments
AllParts(atoms) == Split(atoms)

\* [p for p in bundle_id.split(".") if p]
Parts(atoms) == SelectSeq(Split(atoms), LAMBDA p : p # "")

----------------------------------------------------------------------------
(* _parse_module_target *)

\* a variant that stops at the first matching index
RECURSIVE FirstLayerScan(_, _, _)
FirstLayerScan(parts, index, layer_index) ==
    IF index > Len(parts) - 1 THEN layer_index
    ELSE IF parts[index] \in _MODULE_LAYERS THEN index
    ELSE FirstLayerScan(parts, index + 1, layer_index)

\* the loop over enumerate(parts[:-1]): the last matching index is kept
RECURSIVE LayerScan(_, _, _)
LayerScan(parts, index, layer_index) ==
    IF index > Len(parts) - 1 THEN layer_index
    ELSE LayerScan(parts, index + 1,
                   IF parts[index] \in _MODULE_LAYERS THEN index ELSE layer_index)

_parse_module_target(bid) ==
    LET parts == Parts(bid) IN
    IF Len(parts) < 2 THEN None
    ELSE LET kind == parts[Len(parts)] IN
         IF kind \notin _MODULE_KINDS THEN None
         ELSE LET layer_index == LayerScan(parts, 1, 0) IN
              IF layer_index = 0 THEN None
              ELSE LET module_index == layer_index + 1 IN
                   IF module_index >= Len(parts) THEN None
                   ELSE _ModuleTarget(parts[layer_index], parts[module_index],
                                      kind, Join(bid))

----------------------------------------------------------------------------
(* Python and JSON values *)

\* a str: its value and the atoms it is made of
Str(atoms) == [t |-> "str", v |-> Join(atoms), atoms |-> atoms]

JNull == [t |-> "null"]

\* the number 7
JNum == [t |-> "num"]

JList(items) == [t |-> "list", v |-> items]

\* pairs: the <<key, value>> pairs of the dict, in insertion order
JDict(pairs) == [t |-> "dict", v |-> pairs]

\* a text that json.loads rejects
Invalid == [t |-> "invalid"]

\* key in d
HasKey(d, key) == \E i \in 1..Len(d.v) : d.v[i][1] = key

\* d.get(key, default)
DictGet(d, key, default) ==
    IF HasKey(d, key)
    THEN d.v[CHOOSE i \in 1..Len(d.v) : d.v[i][1] = key][2]
    ELSE default

\* str(x)
PyStr(x) ==
    CASE x.t = "str" -> x.v
      [] x.t = "null" -> "None"
      [] x.t = "num" -> "7"
      [] x.t = "list" -> "[...]"
      [] x.t = "dict" -> "{...}"

\* what `for item in x` yields; iterating a dict yields its keys and iterating
\* a str its characters, all of them str
IterItems(x) ==
    CASE x.t = "list" -> x.v
      [] x.t = "dict" -> [i \in 1..Len(x.v) |-> Str(<<x.v[i][1]>>)]
      [] x.t = "str" -> [i \in 1..Len(x.atoms) |-> Str(<<x.atoms[i]>>)]

_TargetKey(project_path, target_name) ==
    [project_path |-> project_path, target_name |-> target_name]

----------------------------------------------------------------------------
(* _iter_project_objects *)

\* the exception _iter_project_objects(graph) raises, "none" when it returns
IterProjectsRaises(g) ==
    IF g.t # "dict" THEN "AttributeError"
    ELSE IF DictGet(g, "projects", JList(<<>>)).t \notin {"list", "dict", "str"}
         THEN "TypeError"
         ELSE "none"

_iter_project_objects(g) ==
    SelectSeq(IterItems(DictGet(g, "projects", JList(<<>>))),
              LAMBDA item : /\ item.t = "dict"
                            /\ HasKey(item, "path")
                            /\ HasKey(item, "targets"))

----------------------------------------------------------------------------
(* _build_target_index *)

\* index[key] = value
DictSet(index, key, value) ==
    [k \in DOMAIN index \cup {key} |-> IF k = key THEN value ELSE index[k]]

EmptyIndex == [k \in {} |-> None]

\* a variant that gives no entry to a target that does not classify
IndexTargetGovernedOnly(index, project_path, target_name, target) ==
    IF target.t # "dict" THEN index
    ELSE LET bid == DictGet(target, "bundleId", JNull)
             mt == IF bid.t = "str" THEN _parse_module_target(bid.atoms) ELSE None
         IN  IF mt = None THEN index
             ELSE DictSet(index, _TargetKey(project_path, target_name), mt)

\* the body of the loop over targets.items()
IndexTarget(index, project_path, target_name, target) ==
    IF target.t # "dict" THEN index
    ELSE LET bid == DictGet(target, "bundleId", JNull)
             mt == IF bid.t = "str" THEN _parse_module_target(bid.atoms) ELSE None
         IN  DictSet(index, _TargetKey(project_path, target_name), mt)

RECURSIVE IndexTargets(_, _, _, _)
IndexTargets(index, project_path, items, i) ==
    IF i > Len(items) THEN index
    ELSE IndexTargets(
             IndexTarget(index, project_path, items[i][1], items[i][2]),
             project_path, items, i + 1)

\* the body of the loop over the project objects
IndexProject(index, project) ==
    LET project_path == PyStr(DictGet(project, "path", JNull))
        targets == DictGet(project, "targets", JDict(<<>>))
    IN  IF targets.t # "dict" THEN index
        ELSE IndexTargets(index, project_path, targets.v, 1)

RECURSIVE IndexProjects(_, _, _)
IndexProjects(index, projects, i) ==
    IF i > Len(projects) THEN index
    ELSE IndexProjects(IndexProject(index, projects[i]), projects, i + 1)

_build_target_index(g) == IndexProjects(EmptyIndex, _iter_project_objects(g), 1)

----------------------------------------------------------------------------
(* _iter_edges *)

\* the body of the loop over dependencies: the edges one reference adds
DepEdges(project_path, source_key, dep) ==
    IF dep.t # "dict" THEN <<>>
    ELSE IF HasKey(dep, "project") /\ DictGet(dep, "project", JNull).t = "dict"
    THEN LET ref == DictGet(dep, "project", JNull)
             destination_project_path == PyStr(DictGet(ref, "path", Str(<<>>)))
             destination_target == DictGet(ref, "target", JNull)
         IN  IF destination_project_path = "" \/ destination_target.t # "str"
             THEN <<>>
             ELSE << <<source_key,
                       _TargetKey(destination_project_path, destination_target.v)>> >>
    ELSE IF HasKey(dep, "target") /\ DictGet(dep, "target", JNull).t = "dict"
    THEN LET destination_target == DictGet(DictGet(dep, "target", JNull), "name", JNull)
         IN  IF destination_target.t # "str" THEN <<>>
             ELSE << <<source_key,
                       _TargetKey(project_path, destination_target.v)>> >>
    ELSE <<>>

RECURSIVE DepsEdges(_, _, _, _)
DepsEdges(project_path, source_key, deps, i) ==
    IF i > Len(deps) THEN <<>>
    ELSE DepEdges(project_path, source_key, deps[i])
             \o DepsEdges(project_path, source_key, deps, i + 1)

\* the body of the loop over targets.items()
TargetEdges(project_path, source_target_name, target) ==
    IF target.t # "dict" THEN <<>>
    ELSE LET dependencies == DictGet(target, "dependencies", JList(<<>>))
         IN  IF dependencies.t # "list" THEN <<>>
             ELSE DepsEdges(project_path,
                            _TargetKey(project_path, source_target_name),
                            dependencies.v, 1)

RECURSIVE TargetsEdges(_, _, _)
TargetsEdges(project_path, items, i) ==
    IF i > Len(items) THEN <<>>
    ELSE TargetEdges(project_path, items[i][1], items[i][2])
             \o TargetsEdges(project_path, items, i + 1)

ProjectEdges(project) ==
    LET project_path == PyStr(DictGet(project, "path", JNull))
        targets == DictGet(project, "targets", JDict(<<>>))
    IN  IF targets.t # "dict" THEN <<>>
        ELSE TargetsEdges(project_path, targets.v, 1)

RECURSIVE ProjectsEdges(_, _)
ProjectsEdges(projects, i) ==
    IF i > Len(projects) THEN <<>>
    ELSE ProjectEdges(projects[i]) \o ProjectsEdges(projects, i + 1)

_iter_edges(g) == ProjectsEdges(_iter_project_objects(g), 1)

----------------------------------------------------------------------------
(* _check_no_illegal_impl_to_impl_edges *)

\* target_index.get(key)
IndexGet(index, key) == IF key \in DOMAIN index THEN index[key] ELSE None

\* the text of one violation: the fields the f-string interpolates
Violation(source, source_module, dest, dest_module) ==
    [from_path |-> source.project_path, from_name |-> source.target_name,
     from_bundle_id |-> source_module.bundle_id,
     to_path |-> dest.project_path, to_name |-> dest.target_name,
     to_bundle_id |-> dest_module.bundle_id]

\* a variant that also exempts an edge into a compositionRoot target
EdgeRuleEitherRoot(index, source, dest) ==
    LET source_module == IndexGet(index, source)
        dest_module == IndexGet(index, dest)
    IN  IF source_module = None \/ dest_module = None THEN <<>>
        ELSE IF source_module.kind # "impl" \/ dest_module.kind # "impl" THEN <<>>
        ELSE IF /\ source.project_path = dest.project_path
                /\ source.target_name = dest.target_name THEN <<>>
        ELSE IF \/ source_module.layer = "compositionRoot"
                \/ dest_module.layer = "compositionRoot" THEN <<>>
        ELSE <<Violation(source, source_module, dest, dest_module)>>

\* a variant that reports an impl source linking a target it cannot classify
EdgeRuleUnknownDest(index, source, dest) ==
    LET source_module == IndexGet(index, source)
        dest_module == IndexGet(index, dest)
    IN  IF source_module = None THEN <<>>
        ELSE IF source_module.kind # "impl" THEN <<>>
        ELSE IF dest_module # None /\ dest_module.kind # "impl" THEN <<>>
        ELSE IF /\ source.project_path = dest.project_path
                /\ source.target_name = dest.target_name THEN <<>>
        ELSE IF source_module.layer = "compositionRoot" THEN <<>>
        ELSE <<Violation(source, source_module, dest,
                         IF dest_module = None THEN [bundle_id |-> "None"]
                                               ELSE dest_module)>>

\* the body of the loop over edges: the violations one edge adds
EdgeRule(index, source, dest) ==
    LET source_module == IndexGet(index, source)
        dest_module == IndexGet(index, dest)
    IN  IF source_module = None \/ dest_module = None THEN <<>>
        ELSE IF source_module.kind # "impl" \/ dest_module.kind # "impl" THEN <<>>
        ELSE IF /\ source.project_path = dest.project_path
                /\ source.target_name = dest.target_name THEN <<>>
        ELSE IF source_module.layer = "compositionRoot" THEN <<>>
        ELSE <<Violation(source, source_module, dest, dest_module)>>

\* a variant that reports every violating pair once
RECURSIVE CheckFromOnce(_, _, _)
CheckFromOnce(index, es, i) ==
    IF i > Len(es) THEN <<>>
    ELSE (IF \E j \in 1..(i - 1) : es[j] = es[i]
          THEN <<>>
          ELSE EdgeRule(index, es[i][1], es[i][2]))
             \o CheckFromOnce(index, es, i + 1)

\* the loop over edges
RECURSIVE CheckFrom(_, _, _)
CheckFrom(index, es, i) ==
    IF i > Len(es) THEN <<>>
    ELSE EdgeRule(index, es[i][1], es[i][2]) \o CheckFrom(index, es, i + 1)

_check_no_illegal_impl_to_impl_edges(index, es) == CheckFrom(index, es, 1)

----------------------------------------------------------------------------
(* check_swift_docs.py: a line of a Swift file is the sequence of its       *)
(* tokens, the blank line being <<>>; an optional group of a pattern may be *)
(* taken or left, as the regex engine's backtracking allows                 *)

AccessTokens == {"public", "internal", "fileprivate", "private"}

DocTokens == {"///", "/**"}

CommentTokens == {"//", "///"}

AttributeTokens == {"@available"}

\* unset pending_context and pending_depth (Python's None)
NoContext == "None"

NoDepth == -1

lookback_limit == 20

\* the positions a pattern can be at after an optional token of S at p
Optional(line, p, S) ==
    {p} \cup (IF p <= Len(line) /\ line[p] \in S THEN {p + 1} ELSE {})

KeywordAt(line, p, S) == p <= Len(line) /\ line[p] \in S

StartsWith(line, S) == Len(line) > 0 /\ line[1] \in S

EndsWith(line, S) == Len(line) > 0 /\ line[Len(line)] \in S

Count(line, token) == Cardinality({p \in 1..Len(line) : line[p] = token})

_DECLARATION_RE(line) ==
    \E a \in Optional(line, 1, AccessTokens) :
    \E f \in Optional(line, a, {"final"}) :
    \E s \in Optional(line, f, {"static", "class"}) :
        KeywordAt(line, s, {"struct", "enum", "class", "protocol", "typealias",
                            "extension", "func", "init", "subscript", "let", "var"})

_TYPE_RE(line) ==
    \E a \in Optional(line, 1, AccessTokens) :
    \E f \in Optional(line, a, {"final"}) :
        KeywordAt(line, f, {"struct", "enum", "class", "protocol", "extension"})

_FUNC_RE(line) ==
    \E a \in Optional(line, 1, AccessTokens) :
    \E s \in Optional(line, a, {"static", "class"}) :
        KeywordAt(line, s, {"func", "init", "subscript"})

_COMPUTED_PROPERTY_RE(line) ==
    \E a \in Optional(line, 1, AccessTokens) :
    \E s \in Optional(line, a, {"static", "class"}) :
        /\ KeywordAt(line, s, {"let", "var"})
        /\ s < Len(line)
        /\ EndsWith(line, {"{"})

\* searched anywhere in the line
_CLOSURE_START_RE(line) ==
    /\ EndsWith(line, {"{"})
    /\ \E p \in 1..(Len(line) - 1) : line[p] = "="

Finding(line, declaration) == [line |-> line, declaration |-> declaration]

_count_braces(line) == <<Count(line, "{"), Count(line, "}")>>

_is_doc_line(line) == StartsWith(line, DocTokens)

_is_attribute_line(line) == StartsWith(line, AttributeTokens)

\* the inner loop of _prev_doc_line: the position of the "@" line that the
\* lines up to j continue, 0 when the loop ends without finding one
RECURSIVE Lookback(_, _, _)
Lookback(file, j, k) ==
    IF k < 1 \/ (j - k) > lookback_limit THEN 0
    ELSE IF file[k] = <<>> THEN 0
    ELSE IF _is_doc_line(file[k]) THEN 0
    ELSE IF StartsWith(file[k], AttributeTokens) THEN k
    ELSE Lookback(file, j, k - 1)

\* the outer loop of _prev_doc_line from position j down
RECURSIVE PrevDocLineFrom(_, _)
PrevDocLineFrom(file, j) ==
    IF j < 1 THEN 0
    ELSE IF file[j] = <<>> THEN PrevDocLineFrom(file, j - 1)
    ELSE IF _is_attribute_line(file[j]) THEN PrevDocLineFrom(file, j - 1)
    ELSE LET k == Lookback(file, j, j)
         IN  IF k > 0 THEN PrevDocLineFrom(file, k - 1) ELSE j

\* the position of the line _prev_doc_line returns, 0 for None
_prev_doc_line(file, index) == PrevDocLineFrom(file, index - 1)

_is_declaration_line(line) ==
    IF line = <<>> THEN FALSE
    ELSE IF StartsWith(line, {"import"}) THEN FALSE
    ELSE IF StartsWith(line, CommentTokens) THEN FALSE
    ELSE IF StartsWith(line, {"case"}) THEN FALSE
    ELSE _DECLARATION_RE(line)

\* lines 143-146: whether the line's doc comment is looked for
DocChecked(stack, line) == stack = <<>> /\ _is_declaration_line(line)

\* lines 144-146: whether line i of the file is reported
MissingDoc(file, i) ==
    LET previous == _prev_doc_line(file, i)
    IN  previous = 0 \/ ~_is_doc_line(file[previous])

\* lines 152-164: <<pending_context, pending_depth>> after the line's head
PendingAfter(stack, context, depth, current, line) ==
    IF stack = <<>> /\ line # <<>> /\ ~StartsWith(line, DocTokens)
          /\ ~_is_attribute_line(line)
    THEN IF _TYPE_RE(line) THEN <<"type", current>>
         ELSE IF _FUNC_RE(line) THEN <<"code", current>>
         ELSE IF _COMPUTED_PROPERTY_RE(line) THEN <<"code", current>>
         ELSE IF _CLOSURE_START_RE(line) /\ EndsWith(line, {"{"})
              THEN <<"code", current>>
         ELSE <<context, depth>>
    ELSE <<context, depth>>

\* lines 170-174: <<code_stack, pending_context, pending_depth>> once the
\* line's braces are counted
OpenPending(stack, context, depth, current, opens) ==
    IF context # NoContext /\ depth # NoDepth /\ opens > 0 /\ current = depth
    THEN <<IF context = "code" THEN Append(stack, current + 1) ELSE stack,
           NoContext, NoDepth>>
    ELSE <<stack, context, depth>>

\* lines 176-178
DepthAfter(current, opens, closes) ==
    IF current + opens - closes < 0 THEN 0 ELSE current + opens - closes

\* lines 180-181
RECURSIVE PopClosed(_, _)
PopClosed(stack, current) ==
    IF stack # <<>> /\ current < stack[Len(stack)]
    THEN PopClosed(SubSeq(stack, 1, Len(stack) - 1), current)
    ELSE stack

\* the lines a scanned file is made of
SwiftLines ==
    {<<>>,
     <<"///">>,
     <<"@available">>,
     <<"struct", "{">>,
     <<"public", "func">>,
     <<"static", "func", "{">>,
     <<"class", "func", "{">>,
     <<"var", "{">>,
     <<"x", "=", "{">>,
     <<"let">>,
     <<"{">>,
     <<"}">>}

\* lines 134-137, before any file is read
ScannerInit ==
    /\ lines = <<>>
    /\ brace_depth = 0
    /\ code_stack = <<>>
    /\ pending_context = NoContext
    /\ pending_depth = NoDepth
    /\ findings = <<>>
    /\ checked = {}

\* one iteration of the loop of _scan_file over the next line of the file;
\* _prev_doc_line only looks at the lines before it
ScanLine ==
    /\ pc = "scanning"
    /\ Len(lines) < MaxLines
    /\ \E line \in SwiftLines :
         LET file == Append(lines, line)
             i == Len(file)
             looked == DocChecked(code_stack, line)
             pending == PendingAfter(code_stack, pending_context, pending_depth,
                                     brace_depth, line)
             braces == _count_braces(line)
             opened == OpenPending(code_stack, pending[1], pending[2],
                                   brace_depth, braces[1])
             depth == DepthAfter(brace_depth, braces[1], braces[2])
         IN  /\ lines' = file
             /\ checked' = IF looked THEN checked \cup {i} ELSE checked
             /\ findings' = IF looked /\ MissingDoc(file, i)
                            THEN Append(findings, Finding(i, line))
                            ELSE findings
             /\ pending_context' = opened[2]
             /\ pending_depth' = opened[3]
             /\ brace_depth' = depth
             /\ code_stack' = PopClosed(opened[1], depth)
    /\ pc' = pc
    /\ UNCHANGED pipeline

\* return findings, at the end of the file
ScanReturn ==
    /\ pc = "scanning"
    /\ pc' = "scanned"
    /\ UNCHANGED <<pipeline, scanner>>

----------------------------------------------------------------------------
(* main *)

\* how the process ends: main returns code, _safe_print raises SystemExit(0),
\* or an exception nothing catches ends the interpreter with status 1
Returned(code) == [via |-> "return", code |-> code, exception |-> "none"]

SystemExit0 == [via |-> "SystemExit", code |-> 0, exception |-> "BrokenPipeError"]

Uncaught(exception) == [via |-> "exception", code |-> 1, exception |-> exception]

Traceback(exception) == [kind |-> "traceback", exception |-> exception]

\* graph = _load_graph(graph_path)
Load ==
    /\ pc = "start"
    /\ IF payload.t = "invalid"
       THEN /\ status' = Uncaught("JSONDecodeError")
            /\ err' = Append(err, Traceback("JSONDecodeError"))
            /\ pc' = "exited"
            /\ UNCHANGED graph
       ELSE /\ graph' = payload
            /\ pc' = "loaded"
            /\ UNCHANGED <<status, err>>
    /\ UNCHANGED scanner
    /\ UNCHANGED <<bundle_id, module_target, payload, target_index, edges,
                   violations, out>>

\* target_index = _build_target_index(graph)
BuildIndex ==
    /\ pc = "loaded"
    /\ IF IterProjectsRaises(graph) # "none"
       THEN /\ status' = Uncaught(IterProjectsRaises(graph))
            /\ err' = Append(err, Traceback(IterProjectsRaises(graph)))
            /\ pc' = "exited"
            /\ UNCHANGED target_index
       ELSE /\ target_index' = _build_target_index(graph)
            /\ pc' = "indexed"
            /\ UNCHANGED <<status, err>>
    /\ UNCHANGED scanner
    /\ UNCHANGED <<bundle_id, module_target, payload, graph, edges, violations, out>>

\* edges = _iter_edges(graph)
IterEdges ==
    /\ pc = "indexed"
    /\ edges' = _iter_edges(graph)
    /\ pc' = "enumerated"
    /\ UNCHANGED scanner
    /\ UNCHANGED <<bundle_id, module_target, payload, graph, target_index,
                   violations, out, err, status>>

\* violations = _check_no_illegal_impl_to_impl_edges(target_index, edges)
Check ==
    /\ pc = "enumerated"
    /\ violations' = _check_no_illegal_impl_to_impl_edges(target_index, edges)
    /\ pc' = "checked"
    /\ UNCHANGED scanner
    /\ UNCHANGED <<bundle_id, module_target, payload, graph, target_index,
                   edges, out, err, status>>

\* what print() does with the stream: it writes, or the reader is gone
WriteOutcomes == {"written", "BrokenPipeError"}

\* "\n\n".join(violations)
ViolationReport(vs) == [kind |-> "violations", blocks |-> vs]

FailedSummary(n, duration_ms) ==
    [kind |-> "failed", count |-> n, duration_ms |-> duration_ms]

PassedSummary(n, duration_ms) ==
    [kind |-> "passed", count |-> n, duration_ms |-> duration_ms]

\* the exit status after a print that hit a closed stream: _safe_print exits 0
BrokenPipeStatus == SystemExit0

\* the two _safe_print calls to sys.stderr and `return 1`
ReportFailure(duration_ms, w1, w2) ==
    IF w1 = "BrokenPipeError"
    THEN /\ status' = BrokenPipeStatus
         /\ UNCHANGED <<out, err>>
    ELSE IF w2 = "BrokenPipeError"
    THEN /\ status' = BrokenPipeStatus
         /\ err' = Append(err, ViolationReport(violations))
         /\ UNCHANGED out
    ELSE /\ status' = Returned(1)
         /\ err' = err \o <<ViolationReport(violations),
                            FailedSummary(Len(violations), duration_ms)>>
         /\ UNCHANGED out

\* the _safe_print call to sys.stdout and `return 0`
ReportSuccess(duration_ms, w1) ==
    IF w1 = "BrokenPipeError"
    THEN /\ status' = BrokenPipeStatus
         /\ UNCHANGED <<out, err>>
    ELSE /\ status' = Returned(0)
         /\ out' = Append(out, PassedSummary(Len(edges), duration_ms))
         /\ UNCHANGED err

\* lines 229-237 of main
Report ==
    /\ pc = "checked"
    /\ \E duration_ms \in 0..MaxDurationMs, w1 \in WriteOutcomes, w2 \in WriteOutcomes :
           IF violations # <<>>
           THEN ReportFailure(duration_ms, w1, w2)
           ELSE ReportSuccess(duration_ms, w1)
    /\ pc' = "exited"
    /\ UNCHANGED scanner
    /\ UNCHANGED <<bundle_id, module_target, payload, graph, target_index,
                   edges, violations>>

Next == Load \/ BuildIndex \/ IterEdges \/ Check \/ Report

----------------------------------------------------------------------------
(* Input documents *)

RECURSIVE SeqsOfLen(_, _)
SeqsOfLen(S, n) ==
    IF n = 0 THEN {<<>>}
    ELSE {Append(s, x) : s \in SeqsOfLen(S, n - 1), x \in S}

SeqsUpTo(S, n) == UNION {SeqsOfLen(S, k) : k \in 0..n}

\* a key the document does not have
Absent == [t |-> "absent"]

MkDict(pairs) == JDict(SelectSeq(pairs, LAMBDA kv : kv[2].t # "absent"))

Paths == {"/P1", "/P2"}

Names == {"A", "B"}

FeatureImpl == Str(<<"feature", ".", "WidgetKit", ".", "impl">>)

CoreImpl == Str(<<"core", ".", "Accounts", ".", "impl">>)

RootImpl == Str(<<"compositionRoot", ".", "App", ".", "impl">>)

FeatureInterface == Str(<<"feature", ".", "WidgetKit", ".", "interface">>)

NoLayer == Str(<<"WidgetKit", ".", "impl">>)

\* {"project": {"path": path, "target": name}}
CrossRef(path, name) ==
    JDict(<< <<"project", JDict(<< <<"path", Str(<<path>>)>>,
                                   <<"target", Str(<<name>>)>> >>)>> >>)

\* {"target": {"name": name}}
IntraRef(name) ==
    JDict(<< <<"target", JDict(<< <<"name", Str(<<name>>)>> >>)>> >>)

TargetRecord(bundleId, dependencies) ==
    MkDict(<< <<"bundleId", bundleId>>, <<"dependencies", dependencies>> >>)

ProjectRecord(path, targets) ==
    MkDict(<< <<"path", path>>, <<"targets", targets>> >>)

GraphOf(projects) == JDict(<< <<"projects", projects>> >>)

\* Documents of every shape the loader meets: unparseable, not a mapping, no
\* "projects", "projects" of every type, and lists of up to MaxProjects items
\* that are projects or are not, with targets that are records or are not
ShapeTargetRecords ==
    {JNull} \cup
    {TargetRecord(b, Absent) : b \in {Absent, JNum, NoLayer, FeatureImpl}} \cup
    {TargetRecord(FeatureImpl, JList(<<CrossRef("/P1", "A")>>))}

ShapeTargets ==
    {JNull} \cup {JDict(<< <<n, r>> >>) : n \in Names, r \in ShapeTargetRecords}

ShapeItems ==
    {JNull, ProjectRecord(Str(<<"/P1">>), Absent)} \cup
    {ProjectRecord(Str(<<p>>), t) : p \in Paths, t \in ShapeTargets}

ShapePayloads(n) ==
    {Invalid, JNull, JList(<<>>), JDict(<<>>),
     GraphOf(JNull), GraphOf(JNum), GraphOf(Str(<<"a", "b">>)),
     GraphOf(ProjectRecord(Str(<<"/P1">>), JDict(<<>>)))} \cup
    {GraphOf(JList(items)) : items \in SeqsUpTo(ShapeItems, n)}

InitMain(payloads) ==
    /\ pc = "start"
    /\ ScannerInit
    /\ payload \in payloads
    /\ bundle_id = <<>>
    /\ module_target = None
    /\ graph = None
    /\ target_index = EmptyIndex
    /\ edges = <<>>
    /\ violations = <<>>
    /\ out = <<>>
    /\ err = <<>>
    /\ status = None

Init == InitMain(ShapePayloads(MaxProjects))

Spec == Init /\ [][Next]_vars

----------------------------------------------------------------------------
(* The edge enumerator and the rule engine over well-formed graphs: project  *)
(* /P1 with targets A and B in either order, project /P2 with target A, and  *)
(* up to MaxDeps references in every target                                  *)

EdgeBundleIds == {FeatureImpl, RootImpl}

EdgeDeps == {CrossRef("/P2", "A"), IntraRef("B")}

EdgeTargetRecords(n) ==
    {TargetRecord(b, JList(d)) : b \in EdgeBundleIds, d \in SeqsUpTo(EdgeDeps, n)}

EdgeLastTargetRecords(n) ==
    {TargetRecord(FeatureImpl, JList(d)) : d \in SeqsUpTo({CrossRef("/P1", "A")}, n)}

EdgePayloads(k) ==
    {GraphOf(JList(<<
         ProjectRecord(Str(<<"/P1">>), JDict(<< <<n[1], r1>>, <<n[2], r2>> >>)),
         ProjectRecord(Str(<<"/P2">>), JDict(<< <<"A", r3>> >>)) >>)) :
       n \in {o \in Names \X Names : o[1] # o[2]},
       r1 \in EdgeTargetRecords(k), r2 \in EdgeTargetRecords(k),
       r3 \in EdgeLastTargetRecords(k)}

InitEdges == InitMain(EdgePayloads(MaxDeps))

SpecEdges == InitEdges /\ [][Next]_vars

----------------------------------------------------------------------------
(* The edge enumerator over dependency references of every shape: one       *)
(* project /P1 with one target A holding up to MaxDeps references            *)

\* {"project": {"path": path, "target": target}}, a key left out when Absent
RefProject(path, target) ==
    JDict(<< <<"project", MkDict(<< <<"path", path>>, <<"target", target>> >>)>> >>)

\* {"target": {"name": name}}, the key left out when Absent
RefTarget(name) ==
    JDict(<< <<"target", MkDict(<< <<"name", name>> >>)>> >>)

RefShapes ==
    {JNull, JDict(<<>>),
     JDict(<< <<"target", Str(<<"B">>)>> >>),
     JDict(<< <<"project", JNull>>,
              <<"target", JDict(<< <<"name", Str(<<"B">>)>> >>)>> >>),
     JDict(<< <<"project", JDict(<< <<"path", Str(<<>>)>>,
                                    <<"target", Str(<<"A">>)>> >>)>>,
              <<"target", JDict(<< <<"name", Str(<<"B">>)>> >>)>> >>)} \cup
    {RefProject(p, t) : p \in {Str(<<"/P2">>), Str(<<>>), JNull, Absent},
                        t \in {Str(<<"A">>), JNum, Absent}} \cup
    {RefTarget(n) : n \in {Str(<<"B">>), JNum, Absent}}

RefPayloads(n) ==
    {GraphOf(JList(<<
         ProjectRecord(Str(<<"/P1">>),
             JDict(<< <<"A", TargetRecord(FeatureImpl, JList(deps))>> >>)) >>)) :
       deps \in SeqsUpTo(RefShapes, n)}

InitRefs == InitMain(RefPayloads(MaxDeps))

SpecRefs == InitRefs /\ [][Next]_vars

----------------------------------------------------------------------------
(* The rule engine on its own: every index over three keys and every list    *)
(* of up to MaxEdges edges between them                                      *)

RuleKeys == {_TargetKey("/P1", "A"), _TargetKey("/P1", "B"), _TargetKey("/P2", "A")}

RuleValues ==
    {None} \cup {_parse_module_target(b.atoms) :
                    b \in {FeatureImpl, CoreImpl, RootImpl, FeatureInterface}}

RuleIndexes == UNION {[D -> RuleValues] : D \in SUBSET RuleKeys}

RuleEdgeLists(n) == SeqsUpTo(RuleKeys \X RuleKeys, n)

InitRule ==
    /\ pc = "enumerated"
    /\ ScannerInit
    /\ target_index \in RuleIndexes
    /\ edges \in RuleEdgeLists(MaxEdges)
    /\ bundle_id = <<>>
    /\ module_target = None
    /\ payload = None
    /\ graph = None
    /\ violations = <<>>
    /\ out = <<>>
    /\ err = <<>>
    /\ status = None

NextRule == Check

SpecRule == InitRule /\ [][NextRule]_vars

----------------------------------------------------------------------------
(* The classifier on its own: every identifier of up to MaxIdLen atoms *)

Atoms == {".", "core", "feature", "impl", "WidgetKit"}

\* the identifiers of exactly n atoms
Identifiers(n) == [1..n -> Atoms]

InitParse ==
    /\ pc = "parse"
    /\ ScannerInit
    /\ \E n \in 0..MaxIdLen : bundle_id \in Identifiers(n)
    /\ module_target = None
    /\ payload = None
    /\ graph = None
    /\ target_index = EmptyIndex
    /\ edges = <<>>
    /\ violations = <<>>
    /\ out = <<>>
    /\ err = <<>>
    /\ status = None

\* module_target = _parse_module_target(bundle_id)
Parse ==
    /\ pc = "parse"
    /\ module_target' = _parse_module_target(bundle_id)
    /\ pc' = "parsed"
    /\ UNCHANGED scanner
    /\ UNCHANGED <<bundle_id, payload, graph, target_index, edges, violations,
                   out, err, status>>

NextParse == Parse

SpecParse == InitParse /\ [][NextParse]_vars

----------------------------------------------------------------------------
(* The doc scanner over every file of up to MaxLines lines *)

InitScan ==
    /\ pc = "scanning"
    /\ ScannerInit
    /\ bundle_id = <<>>
    /\ module_target = None
    /\ payload = None
    /\ graph = None
    /\ target_index = EmptyIndex
    /\ edges = <<>>
    /\ violations = <<>>
    /\ out = <<>>
    /\ err = <<>>
    /\ status = None

NextScan == ScanLine \/ ScanReturn

SpecScan == InitScan /\ [][NextScan]_vars

----------------------------------------------------------------------------
(* Claims about the classifier *)

\* the segments of an identifier that are not empty
NonEmptySegments(atoms) == SelectSeq(Split(atoms), LAMBDA seg : seg # "")

Max(S) == CHOOSE m \in S : \A x \in S : x <= m

Ident(atoms) == pc = "parsed" /\ bundle_id = atoms

\* The positions, among all non-empty segments but the last, of layer tokens
LayerPositions(parts) == {i \in 1..(Len(parts) - 1) : parts[i] \in _MODULE_LAYERS}

\* C3: a classified identifier gets the rightmost layer token among the
\* segments before the last as its layer and the segment right after it as
\* its module name; when that rightmost token is the second-to-last segment
\* the result is absent, with no fallback to an earlier layer token.
C3_RightmostLayerWins ==
    pc = "parsed" =>
        LET parts == NonEmptySegments(bundle_id)
            L == LayerPositions(parts)
        IN  /\ module_target # None =>
                /\ L # {}
                /\ module_target.layer = parts[Max(L)]
                /\ module_target.module_name = parts[Max(L) + 1]
                /\ module_target.kind = parts[Len(parts)]
            /\ (L # {} /\ Max(L) = Len(parts) - 1) => module_target = None

C3_Witness ==
    /\ Ident(<<"feature", ".", "core", ".", "WidgetKit", ".", "impl">>)
    /\ module_target = _ModuleTarget("core", "WidgetKit", "impl",
                                     "feature.core.WidgetKit.impl")

\* C4: the classifier is total: the result is absent or a descriptor whose
\* layer, module name and kind are all non-empty, with kind and layer in
\* their vocabularies and the input string stored as the source identifier.
C4_ClassifierTotal ==
    pc = "parsed" =>
        \/ module_target = None
        \/ /\ DOMAIN module_target = {"layer", "module_name", "kind", "bundle_id"}
           /\ module_target.layer \in _MODULE_LAYERS
           /\ module_target.kind \in _MODULE_KINDS
           /\ module_target.layer # ""
           /\ module_target.module_name # ""
           /\ module_target.kind # ""
           /\ module_target.bundle_id = Join(bundle_id)

C4_Witness ==
    /\ Ident(<<".", "feature", ".", "WidgetKit", ".", "impl">>)
    /\ module_target = _ModuleTarget("feature", "WidgetKit", "impl",
                                     ".feature.WidgetKit.impl")

HasEmptySegment(atoms) ==
    LET segs == Split(atoms) IN \E i \in 1..Len(segs) : segs[i] = ""

OnlyDots(atoms) == \A i \in 1..Len(atoms) : atoms[i] = "."

\* the non-empty segments joined by single dots
RECURSIVE Dotted(_)
Dotted(parts) ==
    IF Len(parts) <= 1 THEN parts
    ELSE <<Head(parts), ".">> \o Dotted(Tail(parts))

SameClassification(a, b) ==
    \/ a = None /\ b = None
    \/ /\ a # None
       /\ b # None
       /\ a.layer = b.layer
       /\ a.module_name = b.module_name
       /\ a.kind = b.kind

\* C5 as stated: an identifier with an empty segment classifies to absent.
C5_EmptySegmentAbsent ==
    (pc = "parsed" /\ HasEmptySegment(bundle_id)) => module_target = None

\* C5 amended: an identifier made only of dots classifies to absent, and an
\* identifier with empty segments gets the layer, module name and kind (or
\* the absence) of the identifier formed by its non-empty segments: the
\* empty segments are dropped before classification.
C5_EmptySegmentsDropped ==
    (pc = "parsed" /\ HasEmptySegment(bundle_id)) =>
        /\ OnlyDots(bundle_id) => module_target = None
        /\ SameClassification(
               module_target,
               _parse_module_target(Dotted(NonEmptySegments(bundle_id))))

C5_Witness ==
    /\ Ident(<<"feature", ".", ".", "WidgetKit", ".", "impl">>)
    /\ module_target = _ModuleTarget("feature", "WidgetKit", "impl",
                                     "feature..WidgetKit.impl")

----------------------------------------------------------------------------
(* Claims about the rule engine *)

\* some violation names the endpoints of edge e
Reported(e) ==
    \E j \in 1..Len(violations) :
        /\ violations[j].from_path = e[1].project_path
        /\ violations[j].from_name = e[1].target_name
        /\ violations[j].to_path = e[2].project_path
        /\ violations[j].to_name = e[2].target_name

\* the key has a module descriptor in the index
Classified(key) == key \in DOMAIN target_index /\ target_index[key] # None

\* the four conditions of the rule
IllegalImplToImpl(e) ==
    /\ Classified(e[1])
    /\ Classified(e[2])
    /\ target_index[e[1]].kind = "impl"
    /\ target_index[e[2]].kind = "impl"
    /\ e[1] # e[2]
    /\ target_index[e[1]].layer # "compositionRoot"

\* C1: an edge is reported as a violation if and only if both keys have a
\* descriptor in the index, both descriptors are of kind impl, the keys
\* differ and the source's layer is not compositionRoot.
C1_ViolationIffRule ==
    pc = "checked" =>
        \A i \in 1..Len(edges) : Reported(edges[i]) <=> IllegalImplToImpl(edges[i])

\* a feature impl linking a compositionRoot impl is reported, and a
\* compositionRoot impl linking a feature impl is not
C1_Witness ==
    /\ pc = "checked"
    /\ Len(edges) = 2
    /\ Classified(edges[1][1])
    /\ Classified(edges[1][2])
    /\ target_index[edges[1][1]].layer = "feature"
    /\ target_index[edges[1][2]].layer = "compositionRoot"
    /\ edges[2] = <<edges[1][2], edges[1][1]>>
    /\ Len(violations) = 1
    /\ Reported(edges[1])

\* C2: an edge with an endpoint that is in the index with value absent, or
\* that is not in the index at all, is never reported, whatever the other
\* endpoint is, and the evaluation of the rule always completes.
C2_UnclassifiedNeverReported ==
    /\ pc = "enumerated" => ENABLED Check
    /\ pc = "checked" =>
           \A i \in 1..Len(edges) :
               (~Classified(edges[i][1]) \/ ~Classified(edges[i][2]))
                   => ~Reported(edges[i])

\* a feature impl linking a key the index does not have, and another linking
\* a key the index maps to absent
C2_Witness ==
    /\ pc = "checked"
    /\ Len(edges) = 2
    /\ Classified(edges[1][1])
    /\ target_index[edges[1][1]] = _parse_module_target(FeatureImpl.atoms)
    /\ edges[1][2] \notin DOMAIN target_index
    /\ edges[2][1] = edges[1][1]
    /\ edges[2][2] \in DOMAIN target_index
    /\ target_index[edges[2][2]] = None
    /\ violations = <<>>

----------------------------------------------------------------------------
(* Claims about the target index *)

\* the items of the graph's collection of project records
ProjectItems == IterItems(DictGet(graph, "projects", JList(<<>>)))

\* a record exposing both a path and a targets mapping
Recognised(item) ==
    /\ item.t = "dict"
    /\ HasKey(item, "path")
    /\ HasKey(item, "targets")
    /\ DictGet(item, "targets", JNull).t = "dict"

\* the positions <<a, b>> of the targets of the recognised project records
TargetPositions ==
    {q \in (1..Len(ProjectItems)) \X (1..Cardinality(Names)) :
        /\ Recognised(ProjectItems[q[1]])
        /\ q[2] <= Len(DictGet(ProjectItems[q[1]], "targets", JNull).v)}

PathAt(q) == PyStr(DictGet(ProjectItems[q[1]], "path", JNull))

NameAt(q) == DictGet(ProjectItems[q[1]], "targets", JNull).v[q[2]][1]

RecordAt(q) == DictGet(ProjectItems[q[1]], "targets", JNull).v[q[2]][2]

KeyAt(q) == _TargetKey(PathAt(q), NameAt(q))

\* the classification of the identifier of a target record: absent when the
\* identifier is missing, not a string, or does not classify
Classification(record) ==
    IF record.t = "dict" /\ DictGet(record, "bundleId", JNull).t = "str"
    THEN _parse_module_target(DictGet(record, "bundleId", JNull).atoms)
    ELSE None

LexLess(p, q) ==
    \E k \in 1..Len(p) : p[k] < q[k] /\ \A j \in 1..(k - 1) : p[j] = q[j]

\* C6 as stated: every target of every recognised project record has an
\* entry holding the classification of its identifier, whatever its record.
C6_EveryTargetIndexed ==
    pc = "indexed" =>
        \A q \in TargetPositions :
            /\ KeyAt(q) \in DOMAIN target_index
            /\ target_index[KeyAt(q)] = Classification(RecordAt(q))

\* C6 amended: every target whose record is a mapping has an entry, which
\* holds the classification of the identifier of the last target record, in
\* iteration order, that is a mapping and has that project path and name.
C6_EveryMappingTargetIndexed ==
    pc = "indexed" =>
        \A q \in TargetPositions :
            RecordAt(q).t = "dict" =>
                /\ KeyAt(q) \in DOMAIN target_index
                /\ (\A r \in TargetPositions :
                        (KeyAt(r) = KeyAt(q) /\ RecordAt(r).t = "dict")
                            => ~LexLess(q, r))
                       => target_index[KeyAt(q)] = Classification(RecordAt(q))

\* two project records of the same path: a target without identifier and a
\* target that classifies, both indexed
C6_Witness ==
    /\ pc = "indexed"
    /\ Len(ProjectItems) = 2
    /\ TargetPositions = {<<1, 1>>, <<2, 1>>}
    /\ PathAt(<<1, 1>>) = PathAt(<<2, 1>>)
    /\ NameAt(<<1, 1>>) # NameAt(<<2, 1>>)
    /\ RecordAt(<<1, 1>>).t = "dict"
    /\ RecordAt(<<2, 1>>).t = "dict"
    /\ ~HasKey(RecordAt(<<1, 1>>), "bundleId")
    /\ target_index[KeyAt(<<1, 1>>)] = None
    /\ target_index[KeyAt(<<2, 1>>)] = _parse_module_target(FeatureImpl.atoms)

----------------------------------------------------------------------------
(* Claims about the loader and the reporter *)

\* the payload is not a well-formed document, or is not a mapping, or has
\* no "projects" key, or has one that is not a list
Malformed(doc) ==
    \/ doc.t = "invalid"
    \/ doc.t # "dict"
    \/ ~HasKey(doc, "projects")
    \/ DictGet(doc, "projects", JNull).t # "list"

\* C7 as stated: loading a malformed payload fails with an error (here: an
\* exception of any type), so that nothing is indexed, no report is written
\* and no verdict is given, and no other payload ends in an exception.
C7_MalformedGraphFails ==
    /\ Malformed(payload) =>
           /\ pc \in {"start", "loaded", "exited"}
           /\ pc = "exited" =>
                  /\ status.via = "exception"
                  /\ out = <<>>
                  /\ \A i \in 1..Len(err) : err[i].kind = "traceback"
    /\ (~Malformed(payload) /\ pc = "exited") => status.via # "exception"

\* C8 as stated: after the reporter the exit status is 0 exactly when there
\* is no violation and 1 exactly when there is one, write failures included;
\* the report goes to the error stream and the summary, carrying the number
\* of edges, to the output stream.
C8_ExitStatusIffViolations ==
    (pc = "exited" /\ status.via # "exception") =>
        /\ status.code = 0 <=> violations = <<>>
        /\ status.code = 1 <=> violations # <<>>
        /\ violations # <<>> =>
               /\ out = <<>>
               /\ status.via = "return" =>
                      /\ Len(err) = 2
                      /\ err[1] = ViolationReport(violations)
                      /\ err[2].kind = "failed"
        /\ violations = <<>> =>
               /\ err = <<>>
               /\ status.via = "return" =>
                      /\ Len(out) = 1
                      /\ out[1].kind = "passed"
                      /\ out[1].count = Len(edges)

----------------------------------------------------------------------------
(* Claims about the order of edges and violations *)

\* the project records _iter_edges walks, and their parts
WalkedTargets(a) ==
    LET targets == DictGet(ProjectItems[a], "targets", JNull)
    IN  IF Recognised(ProjectItems[a]) THEN targets.v ELSE <<>>

WalkedDeps(a, b) ==
    LET record == WalkedTargets(a)[b][2]
        deps == IF record.t = "dict"
                THEN DictGet(record, "dependencies", JList(<<>>))
                ELSE JNull
    IN  IF deps.t = "list" THEN deps.v ELSE <<>>

\* what the reference at position <<a, b, c>> resolves to
EdgesAt(q) ==
    LET path == PyStr(DictGet(ProjectItems[q[1]], "path", JNull))
    IN  DepEdges(path, _TargetKey(path, WalkedTargets(q[1])[q[2]][1]),
                 WalkedDeps(q[1], q[2])[q[3]])

\* the positions <<project, target, reference>> of the references that
\* resolve to an edge
EdgePositions ==
    {q \in (1..Len(ProjectItems)) \X (1..Cardinality(Names)) \X (1..MaxDeps) :
        /\ q[2] <= Len(WalkedTargets(q[1]))
        /\ q[3] <= Len(WalkedDeps(q[1], q[2]))
        /\ EdgesAt(q) # <<>>}

\* the rank of x in the set S ordered by less
Rank(x, S, less(_, _)) == Cardinality({y \in S : less(y, x)}) + 1

IntLess(i, j) == i < j

ViolatingPositions == {i \in 1..Len(edges) : IllegalImplToImpl(edges[i])}

\* C10: the edges are the resolved references in (project, target,
\* declaration) order, duplicates kept, and the violations are the edges
\* that break the rule, in the same order, one per occurrence; there are
\* never more violations than edges.
C10_OrderPreserved ==
    pc = "checked" =>
        LET declared == EdgePositions
            violating == ViolatingPositions
        IN  /\ Len(edges) = Cardinality(declared)
            /\ \A q \in declared :
                   edges[Rank(q, declared, LexLess)] = EdgesAt(q)[1]
            /\ Len(violations) = Cardinality(violating)
            /\ Len(violations) <= Len(edges)
            /\ \A i \in violating :
                   violations[Rank(i, violating, IntLess)] =
                       Violation(edges[i][1], target_index[edges[i][1]],
                                 edges[i][2], target_index[edges[i][2]])

\* a violating reference declared twice in one target, reported twice, next
\* to references of another target that are not violations
C10_Witness ==
    /\ pc = "checked"
    /\ Len(edges) = 4
    /\ edges[2] = edges[1]
    /\ edges[3][1] # edges[1][1]
    /\ Len(violations) = 2
    /\ violations[1] = violations[2]
    /\ ViolatingPositions = {1, 2}

----------------------------------------------------------------------------
(* Claims about dependency references *)

\* the references the only target of the only project declares
DeclaredRefs ==
    LET project == DictGet(payload, "projects", JNull).v[1]
        target == DictGet(project, "targets", JNull).v[1][2]
    IN  DictGet(target, "dependencies", JNull).v

\* a cross-project reference: a mapping whose "project" is a mapping
IsCrossRef(dep) ==
    /\ dep.t = "dict"
    /\ HasKey(dep, "project")
    /\ DictGet(dep, "project", JNull).t = "dict"

\* an intra-project reference: a mapping whose "target" is a mapping, and
\* that is not a cross-project reference
IsIntraRef(dep) ==
    /\ dep.t = "dict"
    /\ ~IsCrossRef(dep)
    /\ HasKey(dep, "target")
    /\ DictGet(dep, "target", JNull).t = "dict"

\* the edges the claim gives a reference declared by source in project path
ClaimedEdges(path, source, dep) ==
    IF IsCrossRef(dep)
    THEN LET to_path == DictGet(DictGet(dep, "project", JNull), "path", JNull)
             to_name == DictGet(DictGet(dep, "project", JNull), "target", JNull)
         IN  IF to_path.t = "str" /\ to_path.v # "" /\ to_name.t = "str"
             THEN << <<source, _TargetKey(to_path.v, to_name.v)>> >>
             ELSE <<>>
    ELSE IF IsIntraRef(dep)
    THEN LET to_name == DictGet(DictGet(dep, "target", JNull), "name", JNull)
         IN  IF to_name.t = "str"
             THEN << <<source, _TargetKey(path, to_name.v)>> >>
             ELSE <<>>
    ELSE <<>>

RECURSIVE ClaimedEdgesOf(_, _, _, _)
ClaimedEdgesOf(path, source, deps, i) ==
    IF i > Len(deps) THEN <<>>
    ELSE ClaimedEdges(path, source, deps[i])
             \o ClaimedEdgesOf(path, source, deps, i + 1)

\* C11 as stated: a reference yields exactly one edge when it is a
\* cross-project reference with a non-empty project path and a string target
\* name, or an intra-project reference with a string target name; it yields
\* no edge when it is a cross-project reference whose path is missing, null
\* or empty or whose target name is not a string, or matches neither shape.
C11_OneEdgePerWellFormedRef ==
    pc = "enumerated" =>
        edges = ClaimedEdgesOf("/P1", _TargetKey("/P1", "A"), DeclaredRefs, 1)

----------------------------------------------------------------------------
(* Claims about the doc scanner *)

\* the brace depth after the first n lines of the file, never below 0
RECURSIVE DepthAfterLines(_)
DepthAfterLines(n) ==
    IF n = 0 THEN 0
    ELSE LET d == DepthAfterLines(n - 1) + Count(lines[n], "{")
                      - Count(lines[n], "}")
         IN  IF d < 0 THEN 0 ELSE d

\* a line of code, neither blank nor a doc comment nor an attribute
CodeLine(line) ==
    line # <<>> /\ ~_is_doc_line(line) /\ ~_is_attribute_line(line)

\* the head of a function, initializer or subscript, of a computed property
\* or of a closure
BodyHead(line) ==
    /\ CodeLine(line)
    /\ \/ _FUNC_RE(line)
       \/ _COMPUTED_PROPERTY_RE(line)
       \/ _CLOSURE_START_RE(line)

\* the head of a type, that of a class member being the member's head
TypeHead(line) == CodeLine(line) /\ _TYPE_RE(line) /\ ~BodyHead(line)

\* line j opens the body whose head is line k: the first brace after the
\* head, at the head's depth, before any other head
OpensBody(k, j) ==
    /\ k <= j
    /\ BodyHead(lines[k])
    /\ \A m \in (k + 1)..j : ~BodyHead(lines[m]) /\ ~TypeHead(lines[m])
    /\ \A m \in k..(j - 1) : Count(lines[m], "{") = 0
    /\ Count(lines[j], "{") > 0
    /\ DepthAfterLines(j - 1) = DepthAfterLines(k - 1)

\* the body line j opened is open after every line from j to n
StillOpen(j, n) ==
    \A m \in j..n : DepthAfterLines(m) > DepthAfterLines(j - 1)

\* line n lies in a body opened earlier and still open
Enclosed(n) ==
    \E j \in 1..(n - 1) : \E k \in 1..j : OpensBody(k, j) /\ StillOpen(j, n - 1)

\* C12, the state of the scanner after every processed line: brace_depth is
\* not negative, code_stack holds at most one entry, no entry exceeds
\* brace_depth, and pending_context is unset while code_stack is not empty.
C12_StackInvariants ==
    /\ brace_depth >= 0
    /\ Len(code_stack) <= 1
    /\ \A p \in 1..Len(code_stack) : code_stack[p] <= brace_depth
    /\ code_stack # <<>> => pending_context = NoContext

\* C12 as stated: the four facts above hold after every processed line, and
\* a declaration line is checked for a preceding doc comment exactly when no
\* enclosing function, initializer, subscript, computed-property or closure
\* body opened earlier is still open.
C12_CheckedUnlessEnclosed ==
    /\ C12_StackInvariants
    /\ \A n \in 1..Len(lines) :
         n \in checked <=> (_is_declaration_line(lines[n]) /\ ~Enclosed(n))

====
